---- MODULE Spec2Model ----
(***************************************************************************)
(* Code128 framing, checksum and decode of feather-code                    *)
(* (src/src/internals/code128/mod.rs, src/src/barcode/code128/encodings.rs) *)
(*                                                                         *)
(* A datum Code128(&[E]) is an immutable slice of encodings.  `input` is   *)
(* that slice, `rep` the encoding type E (u8 or Pattern).  The three       *)
(* operations data(), checksum() and decode() are called on it; decode()   *)
(* is a loop over the data symbols and is modelled one iteration per step. *)
(* Characters are modelled by their code points, strings by sequences.     *)
(*                                                                         *)
(* Spec      calls of data(), checksum() and decode() on one datum         *)
(* SpecRepeat  the same calls with `firstCall`, the result of the first call *)
(*           of each operation, kept for comparison                        *)
(* SpecUnit  single calls of the conversions and of the Encoding contract: *)
(*           `arg` holds the arguments, `ret` the value returned           *)
(* SpecConc  threads calling checksum() and decode() at the same time on   *)
(*           the data of `slices`; `th` is each thread's call and `frame`  *)
(*           the locals of its decode()                                    *)
(***************************************************************************)
EXTENDS Integers, Sequences, FiniteSets, TLC

VARIABLES rep, input, pc, last, state, idx, decoded, firstCall, arg, ret,
          slices, th, frame

\* the datum, the locals of a call on it and the results of the calls
datumVars == <<rep, input, pc, last, state, idx, decoded, firstCall>>

\* the arguments and the return value of a call of a contract function
unitVars == <<arg, ret>>

\* the data shared by the threads, each thread's call and its stack frame
concVars == <<slices, th, frame>>

vars == <<rep, input, pc, last, state, idx, decoded, firstCall, arg, ret,
          slices, th, frame>>

(***************************************************************************)
(* Bounds of the model                                                     *)
(***************************************************************************)
\* longest unstructured symbol sequence
MaxRaw == 4
\* longest data slice of a well framed datum
MaxData == 3

\* largest value of a u8
MaxU8 == 255

\* symbol values of the unstructured sequences
RawSyms == {0, 33, 97, 103, 104, 105, 106, 107}
\* symbol values of the data slice of a framed datum
DataSyms == {65, 96, 98, 99, 100, 101, 102, 106, 200}

Reps == {"u8", "Pattern"}

(***************************************************************************)
(* Symbology and the Encoding contract                                     *)
(***************************************************************************)
Symbology == {"A", "B", "C"}

\* the discriminants of an enum declared without explicit values
SymbologyValue_Implicit(s) == CASE s = "A" -> 0 [] s = "B" -> 1 [] s = "C" -> 2

\* `start as u64`: the discriminant of the Symbology enum
SymbologyValue(s) == CASE s = "A" -> 103 [] s = "B" -> 104 [] s = "C" -> 105

\* the jump table of the older Pattern (src/code128.rs): 103..105 go to C106
FromU8_Legacy(r, u) == IF r = "Pattern" THEN (IF u <= 102 THEN u ELSE 106) ELSE u

\* From<u8>: identity for u8, the jump table for Pattern (its `_ => C106` arm)
FromU8(r, u) == IF r = "Pattern" THEN (IF u <= 105 THEN u ELSE 106) ELSE u

\* as_u8 over the older Pattern enum (src/code128.rs), which has no variants
\* C103..C105, so that C106 is the 104th variant and casts to 103
AsU8_Legacy(r, e) == IF r = "Pattern" /\ e = 106 THEN 103 ELSE e

\* as_u8: `*self` for u8, `*self as u8` (the variant's discriminant) for Pattern
AsU8(r, e) == e

stop == 106

start(s) == CASE s = "A" -> 103 [] s = "B" -> 104 [] s = "C" -> 105

switch(s) == CASE s = "A" -> 101 [] s = "B" -> 100 [] s = "C" -> 99

shift == 98

fnc1 == 102

fnc2 == 97

fnc3 == 96

\* Option<Self>
None == [some |-> FALSE, value |-> 0]

Some(v) == [some |-> TRUE, value |-> v]

\* fnc4 with the codes of A and B exchanged
fnc4_Swapped(s) ==
    IF s = "A" THEN Some(100) ELSE IF s = "B" THEN Some(101) ELSE None

fnc4(s) ==
    IF s = "A" THEN Some(101) ELSE IF s = "B" THEN Some(100) ELSE None

\* repr(symbology): the character(s) a symbol denotes.  Plain values only:
\* A 0..63 -> +32, 64..95 -> -64; B 0..95 -> +32; C 0..99 -> two digits.
\* A function code denotes no character.
repr(e, s) ==
    CASE s = "A" -> IF e < 64 THEN <<e + 32>>
                    ELSE IF e < 96 THEN <<e - 64>>
                    ELSE <<>>
      [] s = "B" -> IF e < 96 THEN <<e + 32>> ELSE <<>>
      [] s = "C" -> IF e < 100 THEN <<48 + (e \div 10), 48 + (e % 10)>> ELSE <<>>

(***************************************************************************)
(* Framing: Code128::data                                                  *)
(***************************************************************************)
NoFrame == [some |-> FALSE, symbology |-> "-", symbols |-> <<>>, check |-> 0]

Frame(s, symbols, check) ==
    [some |-> TRUE, symbology |-> s, symbols |-> symbols, check |-> check]

\* slice::split_last, the part before the last element
Front(s) == SubSeq(s, 1, Len(s) - 1)

\* data() with the check symbol left in the data slice
data_KeepCheck(r, in) ==
    IF Len(in) = 0 THEN NoFrame
    ELSE LET first == Head(in)
             rest == Tail(in)
         IN IF Len(rest) = 0 \/ rest[Len(rest)] # FromU8(r, stop) THEN NoFrame
            ELSE LET rest2 == Front(rest)
                 IN IF Len(rest2) = 0 THEN NoFrame
                    ELSE LET check == rest2[Len(rest2)]
                             symbols == rest2
                         IN IF first = FromU8(r, start("A")) THEN Frame("A", symbols, check)
                            ELSE IF first = FromU8(r, start("B")) THEN Frame("B", symbols, check)
                            ELSE IF first = FromU8(r, start("C")) THEN Frame("C", symbols, check)
                            ELSE NoFrame

data(r, in) ==
    IF Len(in) = 0 THEN NoFrame
    ELSE LET first == Head(in)
             rest == Tail(in)
         IN IF Len(rest) = 0 \/ rest[Len(rest)] # FromU8(r, stop) THEN NoFrame
            ELSE LET rest2 == Front(rest)
                 IN IF Len(rest2) = 0 THEN NoFrame
                    ELSE LET check == rest2[Len(rest2)]
                             symbols == Front(rest2)
                         IN IF first = FromU8(r, start("A")) THEN Frame("A", symbols, check)
                            ELSE IF first = FromU8(r, start("B")) THEN Frame("B", symbols, check)
                            ELSE IF first = FromU8(r, start("C")) THEN Frame("C", symbols, check)
                            ELSE NoFrame

(***************************************************************************)
(* Checksum: Format::checksum for Code128                                  *)
(***************************************************************************)
\* the fold without the position weight
RECURSIVE fold_Unweighted(_, _, _, _)
fold_Unweighted(r, symbols, sum, pos) ==
    IF symbols = <<>> THEN sum
    ELSE fold_Unweighted(r, Tail(symbols), sum + AsU8(r, Head(symbols)), pos + 1)

\* the fold with the position incremented after the multiplication
RECURSIVE fold_ZeroBased(_, _, _, _)
fold_ZeroBased(r, symbols, sum, pos) ==
    IF symbols = <<>> THEN sum
    ELSE fold_ZeroBased(r, Tail(symbols), sum + AsU8(r, Head(symbols)) * pos, pos + 1)

\* the fold over symbols.iter(): pos += 1; sum + raw * pos
\* (u64 arithmetic; the sums of the bounded inputs stay far below 2^64)
RECURSIVE fold(_, _, _, _)
fold(r, symbols, sum, pos) ==
    IF symbols = <<>> THEN sum
    ELSE fold(r, Tail(symbols), sum + AsU8(r, Head(symbols)) * (pos + 1), pos + 1)

\* the sum cast to u8 without the remainder of the division by 103
checksum_Unreduced(r, in) ==
    LET f == data(r, in)
    IN IF ~f.some THEN FALSE
       ELSE LET sum == fold(r, f.symbols, 0, 0) + SymbologyValue(f.symbology)
            IN FromU8(r, sum % (MaxU8 + 1)) = f.check

checksum(r, in) ==
    LET f == data(r, in)
    IN IF ~f.some THEN FALSE
       ELSE LET sum == fold(r, f.symbols, 0, 0) + SymbologyValue(f.symbology)
            IN FromU8(r, sum % 103) = f.check

(***************************************************************************)
(* Decode: the arms of the parser's finite state machine.  An arm yields   *)
(* the next parser state and the pushed string ("go"), leaves the loop     *)
(* ("break"), returns Err(DecodeErr) ("err"), or aborts ("panic").         *)
(***************************************************************************)
Go(st, push) == [kind |-> "go", state |-> st, push |-> push, text |-> ""]

Break == [kind |-> "break", state |-> "-", push |-> <<>>, text |-> ""]

\* return Err(DecodeErr(format!("<text> {:?}", *e)))
Err(text) == [kind |-> "err", state |-> "-", push |-> <<>>, text |-> text]

Panic == [kind |-> "panic", state |-> "-", push |-> <<>>, text |-> ""]

\* state A with the two switch arms exchanged
ParserA_SwitchSwapped(r, e) ==
    LET n == AsU8(r, e)
    IN IF n < 98 THEN Go("A", repr(e, "A"))
       ELSE IF n = 100 THEN Go("C", <<>>)
       ELSE IF n = 99 THEN Go("B", <<>>)
       ELSE IF n = 98 THEN Go("ShiftB", <<>>)
       ELSE IF n = 106 THEN Break
       ELSE IF n \in {102, 97, 96, 101} THEN Go("A", <<>>)
       ELSE Err("unrecognized encoding")

\* state A with unimplemented!() for an unexpected value
ParserA_Unimplemented(r, e) ==
    LET n == AsU8(r, e)
    IN IF n < 98 THEN Go("A", repr(e, "A"))
       ELSE IF n = 100 THEN Go("B", <<>>)
       ELSE IF n = 99 THEN Go("C", <<>>)
       ELSE IF n = 98 THEN Go("ShiftB", <<>>)
       ELSE IF n = 106 THEN Break
       ELSE IF n \in {102, 97, 96, 101} THEN Go("A", <<>>)
       ELSE Panic

ParserA(r, e) ==
    LET n == AsU8(r, e)
    IN IF n < 98 THEN Go("A", repr(e, "A"))
       ELSE IF n = 100 THEN Go("B", <<>>)
       ELSE IF n = 99 THEN Go("C", <<>>)
       ELSE IF n = 98 THEN Go("ShiftB", <<>>)
       ELSE IF n = 106 THEN Break
       ELSE IF n \in {102, 97, 96, 101} THEN Go("A", <<>>)
       ELSE Err("unrecognized encoding")

\* state B without the function 4 code among the disabled functions
ParserB_NoFnc4(r, e) ==
    LET n == AsU8(r, e)
    IN IF n < 98 THEN Go("B", repr(e, "B"))
       ELSE IF n = 101 THEN Go("B", <<>>)
       ELSE IF n = 99 THEN Go("B", <<>>)
       ELSE IF n = 106 THEN Break
       ELSE IF n = 98 THEN Go("ShiftA", <<>>)
       ELSE IF n \in {102, 97, 96} THEN Go("B", <<>>)
       ELSE Err("unrecognized encoding")

ParserB(r, e) ==
    LET n == AsU8(r, e)
    IN IF n < 98 THEN Go("B", repr(e, "B"))
       ELSE IF n = 101 THEN Go("B", <<>>)
       ELSE IF n = 99 THEN Go("B", <<>>)
       ELSE IF n = 106 THEN Break
       ELSE IF n = 98 THEN Go("ShiftA", <<>>)
       ELSE IF n \in {102, 97, 96, 100} THEN Go("B", <<>>)
       ELSE Err("unrecognized encoding")

\* state C skipping a symbol it does not know
ParserC_Lenient(r, e) ==
    LET n == AsU8(r, e)
    IN IF n < 100 THEN Go("C", repr(e, "C"))
       ELSE IF n = 100 THEN Go("B", <<>>)
       ELSE IF n = 101 THEN Go("A", <<>>)
       ELSE IF n = 106 THEN Break
       ELSE Go("C", <<>>)

\* state C with the plain range of states A and B: 98 and 99 are not printed
ParserC_Below98(r, e) ==
    LET n == AsU8(r, e)
    IN IF n < 98 THEN Go("C", repr(e, "C"))
       ELSE IF n = 100 THEN Go("B", <<>>)
       ELSE IF n = 101 THEN Go("A", <<>>)
       ELSE IF n = 106 THEN Break
       ELSE IF n = 102 THEN Go("C", <<>>)
       ELSE Err("unexpected encoding")

\* state C without the arm for the stop code
ParserC_NoStop(r, e) ==
    LET n == AsU8(r, e)
    IN IF n < 100 THEN Go("C", repr(e, "C"))
       ELSE IF n = 100 THEN Go("B", <<>>)
       ELSE IF n = 101 THEN Go("A", <<>>)
       ELSE IF n = 102 THEN Go("C", <<>>)
       ELSE Err("unexpected encoding")

ParserC(r, e) ==
    LET n == AsU8(r, e)
    IN IF n < 100 THEN Go("C", repr(e, "C"))
       ELSE IF n = 100 THEN Go("B", <<>>)
       ELSE IF n = 101 THEN Go("A", <<>>)
       ELSE IF n = 106 THEN Break
       ELSE IF n = 102 THEN Go("C", <<>>)
       ELSE Err("unexpected encoding")

ParserShiftA(r, e) ==
    LET n == AsU8(r, e)
    IN IF n < 98 THEN Go("B", repr(e, "A")) ELSE Err("unexpected shifted encoding")

\* the shifted symbol leaves the parser in the shifted symbology
ParserShiftB_Stay(r, e) ==
    LET n == AsU8(r, e)
    IN IF n < 98 THEN Go("B", repr(e, "B")) ELSE Err("unexpected shifted encoding")

ParserShiftB(r, e) ==
    LET n == AsU8(r, e)
    IN IF n < 98 THEN Go("A", repr(e, "B")) ELSE Err("unexpected shifted encoding")

\* state = match state { ... }
Parser(r, st, e) ==
    CASE st = "A" -> ParserA(r, e)
      [] st = "B" -> ParserB(r, e)
      [] st = "C" -> ParserC(r, e)
      [] st = "ShiftA" -> ParserShiftA(r, e)
      [] st = "ShiftB" -> ParserShiftB(r, e)

(***************************************************************************)
(* The older decode of src/code128.rs: one arm per symbology, the          *)
(* characters computed in place from `*sym as u8`                          *)
(***************************************************************************)
\* the arms with the two digits of symbology C pushed units first
legacyArm_UnitsFirst(s, symbol) ==
    IF s = "A"
    THEN IF symbol < 64 THEN Go("A", <<symbol + 32>>)
         ELSE IF symbol < 96 THEN Go("A", <<symbol - 64>>)
         ELSE IF symbol \in {96, 97, 101, 102} THEN Go("A", <<>>)
         ELSE IF symbol = 98 THEN Panic
         ELSE IF symbol = 99 THEN Go("C", <<>>)
         ELSE IF symbol = 100 THEN Go("B", <<>>)
         ELSE IF symbol = 106 THEN Break
         ELSE Panic
    ELSE IF s = "B"
    THEN IF symbol < 96 THEN Go("B", <<symbol + 32>>)
         ELSE IF symbol \in {96, 97, 100, 102} THEN Go("B", <<>>)
         ELSE IF symbol = 98 THEN Panic
         ELSE IF symbol = 99 THEN Go("C", <<>>)
         ELSE IF symbol = 101 THEN Go("A", <<>>)
         ELSE IF symbol = 106 THEN Break
         ELSE Panic
    ELSE IF symbol < 100
         THEN LET unit == symbol % 10
                  tens == (symbol - unit) \div 10
              IN Go("C", <<unit + 48, tens + 48>>)
         ELSE IF symbol = 100 THEN Go("B", <<>>)
         ELSE IF symbol = 101 THEN Go("A", <<>>)
         ELSE IF symbol = 102 THEN Go("C", <<>>)
         ELSE IF symbol = 106 THEN Break
         ELSE Panic

\* symbology = match symbology { A => .., B => .., C => .. }
legacyArm(s, symbol) ==
    IF s = "A"
    THEN IF symbol < 64 THEN Go("A", <<symbol + 32>>)
         ELSE IF symbol < 96 THEN Go("A", <<symbol - 64>>)
         ELSE IF symbol \in {96, 97, 101, 102} THEN Go("A", <<>>)
         ELSE IF symbol = 98 THEN Panic
         ELSE IF symbol = 99 THEN Go("C", <<>>)
         ELSE IF symbol = 100 THEN Go("B", <<>>)
         ELSE IF symbol = 106 THEN Break
         ELSE Panic
    ELSE IF s = "B"
    THEN IF symbol < 96 THEN Go("B", <<symbol + 32>>)
         ELSE IF symbol \in {96, 97, 100, 102} THEN Go("B", <<>>)
         ELSE IF symbol = 98 THEN Panic
         ELSE IF symbol = 99 THEN Go("C", <<>>)
         ELSE IF symbol = 101 THEN Go("A", <<>>)
         ELSE IF symbol = 106 THEN Break
         ELSE Panic
    ELSE IF symbol < 100
         THEN LET unit == symbol % 10
                  tens == (symbol - unit) \div 10
              IN Go("C", <<tens + 48, unit + 48>>)
         ELSE IF symbol = 100 THEN Go("B", <<>>)
         ELSE IF symbol = 101 THEN Go("A", <<>>)
         ELSE IF symbol = 102 THEN Go("C", <<>>)
         ELSE IF symbol = 106 THEN Break
         ELSE Panic

(***************************************************************************)
(* Results of the operations                                               *)
(***************************************************************************)
\* {:?} of an encoding: the decimal number of a u8, the variant name Cn of a
\* Pattern (derived Debug)
Debug(r, e) == [prefix |-> IF r = "Pattern" THEN "C" ELSE "", digits |-> AsU8(r, e)]

NoMsg == [text |-> "", arg |-> [prefix |-> "", digits |-> 0]]

NoResult == [kind |-> "-", str |-> <<>>, len |-> 0, sym |-> 0, msg |-> NoMsg]

Ok(str) == [kind |-> "Ok", str |-> str, len |-> 0, sym |-> 0, msg |-> NoMsg]

InvalidLength(n) ==
    [kind |-> "InvalidLength", str |-> <<>>, len |-> n, sym |-> 0, msg |-> NoMsg]

\* BadFormat("unrecognized format")
BadFormat ==
    [kind |-> "BadFormat", str |-> <<>>, len |-> 0, sym |-> 0,
     msg |-> [text |-> "unrecognized format", arg |-> NoMsg.arg]]

\* DecodeErr(format!("<text> {:?}", *e)); sym is the value of the symbol e
DecodeErr(r, text, e) ==
    [kind |-> "DecodeErr", str |-> <<>>, len |-> 0, sym |-> AsU8(r, e),
     msg |-> [text |-> text, arg |-> Debug(r, e)]]

Abort == [kind |-> "panic", str |-> <<>>, len |-> 0, sym |-> 0, msg |-> NoMsg]

\* the outcome of the last completed call on the datum
NoCall == [op |-> "-", frame |-> NoFrame, valid |-> FALSE, res |-> NoResult]

DataCall(f) == [op |-> "data", frame |-> f, valid |-> FALSE, res |-> NoResult]

ChecksumCall(v) == [op |-> "checksum", frame |-> NoFrame, valid |-> v, res |-> NoResult]

DecodeCall(res) == [op |-> "decode", frame |-> NoFrame, valid |-> FALSE, res |-> res]

\* the head of decode() with the checksum verified before parsing
decodeEntry_Verified(r, in) ==
    IF Len(in) < 4 THEN InvalidLength(Len(in))
    ELSE IF ~data(r, in).some \/ ~checksum(r, in) THEN BadFormat
    ELSE NoResult

\* the head of decode() with the length test one too low
decodeEntry_Len3(r, in) ==
    IF Len(in) < 3 THEN InvalidLength(Len(in))
    ELSE IF ~data(r, in).some THEN BadFormat
    ELSE NoResult

\* the head of decode(): length test, then framing
decodeEntry(r, in) ==
    IF Len(in) < 4 THEN InvalidLength(Len(in))
    ELSE IF ~data(r, in).some THEN BadFormat
    ELSE NoResult

\* the 'parser loop of decode() run to its end over the data slice
RECURSIVE parser(_, _, _, _)
parser(r, symbols, st, out) ==
    IF symbols = <<>> THEN Ok(out)
    ELSE LET e == Head(symbols)
             t == Parser(r, st, e)
         IN IF t.kind = "go" THEN parser(r, Tail(symbols), t.state, out \o t.push)
            ELSE IF t.kind = "break" THEN Ok(out)
            ELSE IF t.kind = "err" THEN DecodeErr(r, t.text, e)
            ELSE Abort

\* decode() as a function of the datum
decode(r, in) ==
    LET entry == decodeEntry(r, in)
    IN IF entry.kind # "-" THEN entry
       ELSE parser(r, data(r, in).symbols, data(r, in).symbology, <<>>)

(***************************************************************************)
(* The inputs: symbol sequences supplied by the caller                     *)
(***************************************************************************)
RECURSIVE SeqsUpTo(_, _)
SeqsUpTo(S, n) ==
    IF n = 0 THEN {<<>>}
    ELSE LET shorter == SeqsUpTo(S, n - 1)
         IN shorter \cup {Append(q, x) : q \in {t \in shorter : Len(t) = n - 1}, x \in S}

\* sum over the data slice of value * (1-based position)
RECURSIVE Weighted(_, _)
Weighted(symbols, k) ==
    IF k = 0 THEN 0 ELSE symbols[k] * k + Weighted(symbols, k - 1)

\* a check symbol that is right for (s, d), and one that is not
Checks(s, d) ==
    LET c == (start(s) + Weighted(d, Len(d))) % 103
    IN {c, (c + 1) % 103}

FramedOver(S) ==
    UNION {{<<start(s)>> \o d \o <<c, stop>> : c \in Checks(s, d)} :
             s \in Symbology, d \in SeqsUpTo(S, MaxData)}

Framed == FramedOver(DataSyms)

Inputs == SeqsUpTo(RawSyms, MaxRaw) \cup Framed

\* the slice handed to Code128(..): every element converted with E::from
Convert(r, raw) == [i \in 1..Len(raw) |-> FromU8(r, raw[i])]

(***************************************************************************)
(* The state machine                                                       *)
(***************************************************************************)
\* no contract function called
NoArg == [r |-> "u8", s |-> "A", u |-> 0]

NoRet == [fn |-> "-", val |-> 0]

\* the results of the first calls: nothing called yet; `on` tells whether
\* they are kept
NoFirst(on) == [on |-> on, data |-> NoCall, checksum |-> NoCall, decode |-> NoCall]

\* the call c has returned: keep it if it is the first of its operation
Record(f, c) ==
    IF f.on /\ f[c.op] = NoCall THEN [f EXCEPT ![c.op] = c] ELSE f

\* the threads of the concurrent calls
Threads == {1, 2}

\* a thread that has not called yet; ref is the index of its datum in `slices`
IdleThread(ref) == [ref |-> ref, pc |-> "idle", res |-> NoCall, mixed |-> FALSE]

\* the locals of decode() while no call is running
NoLocals == [state |-> "-", idx |-> 0, decoded |-> <<>>]

NoThreads == [t \in Threads |-> IdleThread(1)]

NoFrames == [t \in Threads |-> NoLocals]

Init ==
    /\ rep \in Reps
    /\ \E raw \in Inputs : input = Convert(rep, raw)
    /\ pc = "idle"
    /\ last = NoCall
    /\ state = "-"
    /\ idx = 0
    /\ decoded = <<>>
    /\ firstCall = NoFirst(FALSE)
    /\ arg = NoArg
    /\ ret = NoRet
    /\ slices = <<>>
    /\ th = NoThreads
    /\ frame = NoFrames

\* the data slice the parser loop iterates over
Symbols == data(rep, input).symbols

\* code.data()
CallData ==
    /\ pc = "idle"
    /\ last' = DataCall(data(rep, input))
    /\ firstCall' = Record(firstCall, last')
    /\ UNCHANGED <<rep, input, pc, state, idx, decoded>>
    /\ UNCHANGED <<unitVars, concVars>>

\* code.checksum()
CallChecksum ==
    /\ pc = "idle"
    /\ last' = ChecksumCall(checksum(rep, input))
    /\ firstCall' = Record(firstCall, last')
    /\ UNCHANGED <<rep, input, pc, state, idx, decoded>>
    /\ UNCHANGED <<unitVars, concVars>>

\* decode() with the output string kept from the call before instead of a
\* new empty one
DecodeEnter_Stale ==
    /\ pc = "idle"
    /\ LET r == decodeEntry(rep, input)
       IN IF r.kind # "-"
          THEN /\ last' = DecodeCall(r)
               /\ firstCall' = Record(firstCall, last')
               /\ UNCHANGED <<pc, state, idx, decoded>>
          ELSE /\ pc' = "parser"
               /\ last' = NoCall
               /\ state' = data(rep, input).symbology
               /\ idx' = 1
               /\ decoded' = last.res.str
               /\ UNCHANGED firstCall
    /\ UNCHANGED <<rep, input>>
    /\ UNCHANGED <<unitVars, concVars>>

\* code.decode() up to the parser loop
DecodeEnter ==
    /\ pc = "idle"
    /\ LET r == decodeEntry(rep, input)
       IN IF r.kind # "-"
          THEN /\ last' = DecodeCall(r)
               /\ firstCall' = Record(firstCall, last')
               /\ UNCHANGED <<pc, state, idx, decoded>>
          ELSE /\ pc' = "parser"
               /\ last' = NoCall
               /\ state' = data(rep, input).symbology
               /\ idx' = 1
               /\ decoded' = <<>>
               /\ UNCHANGED firstCall
    /\ UNCHANGED <<rep, input>>
    /\ UNCHANGED <<unitVars, concVars>>

\* leaving decode(): the locals go out of scope
Return(res) ==
    /\ last' = DecodeCall(res)
    /\ firstCall' = Record(firstCall, last')
    /\ pc' = "idle"
    /\ state' = "-"
    /\ idx' = 0
    /\ decoded' = <<>>

\* the loop with the output assigned instead of pushed to
ParserStep_Overwrite ==
    /\ pc = "parser"
    /\ idx <= Len(Symbols)
    /\ LET e == Symbols[idx]
           t == Parser(rep, state, e)
       IN CASE t.kind = "go" -> /\ state' = t.state
                                /\ decoded' = t.push
                                /\ idx' = idx + 1
                                /\ UNCHANGED <<pc, last, firstCall>>
            [] t.kind = "break" -> Return(Ok(decoded))
            [] t.kind = "err" -> Return(DecodeErr(rep, t.text, e))
            [] t.kind = "panic" -> Return(Abort)
    /\ UNCHANGED <<rep, input>>
    /\ UNCHANGED <<unitVars, concVars>>

\* the loop with a control symbol read again instead of consumed
ParserStep_Reread ==
    /\ pc = "parser"
    /\ idx <= Len(Symbols)
    /\ LET e == Symbols[idx]
           t == Parser(rep, state, e)
       IN CASE t.kind = "go" -> /\ state' = t.state
                                /\ decoded' = decoded \o t.push
                                /\ idx' = IF t.push = <<>> THEN idx ELSE idx + 1
                                /\ UNCHANGED <<pc, last, firstCall>>
            [] t.kind = "break" -> Return(Ok(decoded))
            [] t.kind = "err" -> Return(DecodeErr(rep, t.text, e))
            [] t.kind = "panic" -> Return(Abort)
    /\ UNCHANGED <<rep, input>>
    /\ UNCHANGED <<unitVars, concVars>>

\* one iteration of 'parser: for e in symbols.iter()
ParserStep ==
    /\ pc = "parser"
    /\ idx <= Len(Symbols)
    /\ LET e == Symbols[idx]
           t == Parser(rep, state, e)
       IN CASE t.kind = "go" -> /\ state' = t.state
                                /\ decoded' = decoded \o t.push
                                /\ idx' = idx + 1
                                /\ UNCHANGED <<pc, last, firstCall>>
            [] t.kind = "break" -> Return(Ok(decoded))
            [] t.kind = "err" -> Return(DecodeErr(rep, t.text, e))
            [] t.kind = "panic" -> Return(Abort)
    /\ UNCHANGED <<rep, input>>
    /\ UNCHANGED <<unitVars, concVars>>

\* the iterator is exhausted: Ok(decoded)
DecodeReturn ==
    /\ pc = "parser"
    /\ idx > Len(Symbols)
    /\ Return(Ok(decoded))
    /\ UNCHANGED <<rep, input>>
    /\ UNCHANGED <<unitVars, concVars>>

Next == CallData \/ CallChecksum \/ DecodeEnter \/ ParserStep \/ DecodeReturn

Spec == Init /\ [][Next]_vars

\* a call of decode() that has entered its loop keeps running: the loop has
\* no wait and no blocking call, so its next iteration or its return is taken
SpecLive == Init /\ [][Next]_vars /\ WF_vars(ParserStep) /\ WF_vars(DecodeReturn)

TypeOK ==
    /\ rep \in Reps
    /\ pc \in {"idle", "parser"}
    /\ state \in {"-", "A", "B", "C", "ShiftA", "ShiftB"}
    /\ idx \in 0..(Len(input) + 1)

(***************************************************************************)
(* Repeated calls: the same operations, the first result of each kept      *)
(***************************************************************************)
\* symbol values of the data slices of the repeated calls
RepeatSyms == {65, 98, 101, 106, 200}

InitRepeat ==
    /\ rep \in Reps
    /\ \E raw \in SeqsUpTo(RawSyms, MaxRaw) \cup FramedOver(RepeatSyms) :
         input = Convert(rep, raw)
    /\ pc = "idle"
    /\ last = NoCall
    /\ state = "-"
    /\ idx = 0
    /\ decoded = <<>>
    /\ firstCall = NoFirst(TRUE)
    /\ arg = NoArg
    /\ ret = NoRet
    /\ slices = <<>>
    /\ th = NoThreads
    /\ frame = NoFrames

SpecRepeat == InitRepeat /\ [][Next]_vars

(***************************************************************************)
(* Single calls of the conversions and of the Encoding contract            *)
(***************************************************************************)
InitUnit ==
    /\ arg \in [r : Reps, s : Symbology, u : 0..MaxU8]
    /\ ret = NoRet
    /\ rep = arg.r
    /\ input = <<>>
    /\ pc = "idle"
    /\ last = NoCall
    /\ state = "-"
    /\ idx = 0
    /\ decoded = <<>>
    /\ firstCall = NoFirst(FALSE)
    /\ slices = <<>>
    /\ th = NoThreads
    /\ frame = NoFrames

\* E::from(u)
CallFrom ==
    /\ ret.fn = "-"
    /\ ret' = [fn |-> "from", val |-> FromU8(arg.r, arg.u)]
    /\ UNCHANGED <<arg, datumVars, concVars>>

\* .as_u8() of the encoding E::from returned
CallAsU8 ==
    /\ ret.fn = "from"
    /\ ret' = [fn |-> "as_u8", val |-> AsU8(arg.r, ret.val)]
    /\ UNCHANGED <<arg, datumVars, concVars>>

\* one arm of the parser of Code128::decode applied to E::from(u) in state s
CallArm ==
    /\ ret.fn = "-"
    /\ ret' = [fn |-> "arm", val |-> Parser(arg.r, arg.s, FromU8(arg.r, arg.u))]
    /\ UNCHANGED <<arg, datumVars, concVars>>

\* one arm of the older decode applied to the symbol value u in symbology s
CallLegacyArm ==
    /\ ret.fn = "-"
    /\ ret' = [fn |-> "legacy", val |-> legacyArm(arg.s, arg.u)]
    /\ UNCHANGED <<arg, datumVars, concVars>>

\* the structural symbols of the contract for symbology s, each as the
\* number of the encoding that E returns
CallContract ==
    /\ ret.fn = "-"
    /\ ret' = [fn |-> "contract",
               val |-> [stop |-> AsU8(arg.r, FromU8(arg.r, stop)),
                        start |-> AsU8(arg.r, FromU8(arg.r, start(arg.s))),
                        switch |-> AsU8(arg.r, FromU8(arg.r, switch(arg.s))),
                        shift |-> AsU8(arg.r, FromU8(arg.r, shift)),
                        fnc1 |-> AsU8(arg.r, FromU8(arg.r, fnc1)),
                        fnc2 |-> AsU8(arg.r, FromU8(arg.r, fnc2)),
                        fnc3 |-> AsU8(arg.r, FromU8(arg.r, fnc3)),
                        symbology |-> SymbologyValue(arg.s)]]
    /\ UNCHANGED <<arg, datumVars, concVars>>

\* E::fnc4(s)
CallFnc4 ==
    /\ ret.fn = "-"
    /\ ret' = [fn |-> "fnc4",
               val |-> IF fnc4(arg.s).some
                       THEN Some(AsU8(arg.r, FromU8(arg.r, fnc4(arg.s).value)))
                       ELSE None]
    /\ UNCHANGED <<arg, datumVars, concVars>>

NextUnit ==
    CallFrom \/ CallAsU8 \/ CallArm \/ CallLegacyArm \/ CallContract \/ CallFnc4

SpecUnit == InitUnit /\ [][NextUnit]_vars

(***************************************************************************)
(* Concurrent calls: each thread calls checksum() or decode() once on a    *)
(* datum of `slices`; decode() advances one loop iteration per step        *)
(***************************************************************************)
\* longest data slice of the data the threads share
MaxConc == 2

\* symbol values of those data slices
ConcSyms == {65, 98}

\* the data: well framed with a right or a wrong check symbol, and one
\* sequence without a frame
ConcInputs ==
    {f \in FramedOver(ConcSyms) : Len(f) <= MaxConc + 3} \cup {<<65, 65, 65, 65>>}

\* one datum borrowed by both threads, or one datum for each
InitConc ==
    /\ rep \in Reps
    /\ \E raws \in SeqsUpTo(ConcInputs, 2) :
         /\ raws # <<>>
         /\ slices = [i \in 1..Len(raws) |-> Convert(rep, raws[i])]
         /\ th = [t \in Threads |-> IdleThread(IF t = 1 THEN 1 ELSE Len(raws))]
    /\ frame = NoFrames
    /\ input = <<>>
    /\ pc = "idle"
    /\ last = NoCall
    /\ state = "-"
    /\ idx = 0
    /\ decoded = <<>>
    /\ firstCall = NoFirst(FALSE)
    /\ arg = NoArg
    /\ ret = NoRet

\* the slice &self.0 of the datum thread t calls on
Slice(t) == slices[th[t].ref]

\* the locals of decode() in one frame shared by all threads
Own_Shared(t) == 1

\* the frame holding `decoded` and `state` of the decode() thread t runs:
\* the locals of a call live on the stack of the calling thread
Own(t) == t

\* another thread is inside its parser loop
Overlaps(t) == \E u \in Threads \ {t} : th[u].pc = "parser"

\* thread t: code.checksum()
ThreadChecksum(t) ==
    /\ th[t].pc = "idle"
    /\ th' = [th EXCEPT ![t].pc = "done",
                        ![t].res = ChecksumCall(checksum(rep, Slice(t)))]
    /\ UNCHANGED <<slices, frame>>
    /\ UNCHANGED <<datumVars, unitVars>>

\* thread t: code.decode() up to the parser loop
ThreadDecodeEnter(t) ==
    /\ th[t].pc = "idle"
    /\ LET r == decodeEntry(rep, Slice(t))
       IN IF r.kind # "-"
          THEN /\ th' = [th EXCEPT ![t].pc = "done", ![t].res = DecodeCall(r)]
               /\ UNCHANGED frame
          ELSE /\ th' = [th EXCEPT ![t].pc = "parser"]
               /\ frame' = [frame EXCEPT ![Own(t)] =
                              [state |-> data(rep, Slice(t)).symbology,
                               idx |-> 1,
                               decoded |-> <<>>]]
    /\ UNCHANGED slices
    /\ UNCHANGED <<datumVars, unitVars>>

\* thread t leaves decode(): its locals go out of scope
ThreadReturn(t, res) ==
    /\ th' = [th EXCEPT ![t].pc = "done", ![t].res = DecodeCall(res)]
    /\ frame' = [frame EXCEPT ![Own(t)] = NoLocals]

\* thread t: one iteration of 'parser: for e in symbols.iter()
ThreadParserStep(t) ==
    /\ th[t].pc = "parser"
    /\ frame[Own(t)].idx <= Len(data(rep, Slice(t)).symbols)
    /\ LET f == frame[Own(t)]
           e == data(rep, Slice(t)).symbols[f.idx]
           a == Parser(rep, f.state, e)
       IN CASE a.kind = "go" ->
                 /\ frame' = [frame EXCEPT ![Own(t)] =
                                [state |-> a.state,
                                 idx |-> f.idx + 1,
                                 decoded |-> f.decoded \o a.push]]
                 /\ th' = [th EXCEPT ![t].mixed = @ \/ Overlaps(t)]
            [] a.kind = "break" -> ThreadReturn(t, Ok(f.decoded))
            [] a.kind = "err" -> ThreadReturn(t, DecodeErr(rep, a.text, e))
            [] a.kind = "panic" -> ThreadReturn(t, Abort)
    /\ UNCHANGED slices
    /\ UNCHANGED <<datumVars, unitVars>>

\* thread t: the iterator is exhausted: Ok(decoded)
ThreadDecodeReturn(t) ==
    /\ th[t].pc = "parser"
    /\ frame[Own(t)].idx > Len(data(rep, Slice(t)).symbols)
    /\ ThreadReturn(t, Ok(frame[Own(t)].decoded))
    /\ UNCHANGED slices
    /\ UNCHANGED <<datumVars, unitVars>>

NextConc ==
    \E t \in Threads :
        \/ ThreadChecksum(t)
        \/ ThreadDecodeEnter(t)
        \/ ThreadParserStep(t)
        \/ ThreadDecodeReturn(t)

SpecConc == InitConc /\ [][NextConc]_vars

(***************************************************************************)
(* Properties                                                              *)
(***************************************************************************)
\* the symbol the parser loop reads next
AtSymbol == pc = "parser" /\ idx <= Len(Symbols)

\* first element a start code, last element the stop code, and an element
\* between them
WellFramed(in) ==
    /\ Len(in) >= 3
    /\ in[1] \in {103, 104, 105}
    /\ in[Len(in)] = 106

\* C1: checksum() is true iff framing succeeds and (start code value + sum
\* over the data symbols of value * 1-based position) mod 103 equals the
\* value of the check symbol.
C1_ChecksumIff ==
    last.op = "checksum" =>
        LET f == data(rep, input)
        IN last.valid <=>
             /\ f.some
             /\ (input[1] + Weighted(f.symbols, Len(f.symbols))) % 103 = f.check

C1_Witness ==
    /\ last.op = "checksum"
    /\ last.valid
    /\ Len(data(rep, input).symbols) >= 2
    /\ data(rep, input).symbols[2] > 0

C3_ShortNoFrame ==
    (last.op = "data" /\ Len(input) < 4) => ~last.frame.some

\* C4: checksum() is false for every sequence shorter than 4 symbols and for
\* every sequence on which framing fails.
C4_ChecksumFalse ==
    (last.op = "checksum" /\ (Len(input) < 4 \/ ~data(rep, input).some))
        => ~last.valid

\* C5: decode() returns InvalidLength(n) for every sequence of length n < 4,
\* BadFormat for every sequence of length >= 4 on which framing fails, and
\* neither of the two for a sequence of length >= 4 that frames.
C5_EntryErrors ==
    last.op = "decode" =>
        /\ Len(input) < 4 => last.res = InvalidLength(Len(input))
        /\ (Len(input) >= 4 /\ ~data(rep, input).some) => last.res = BadFormat
        /\ (Len(input) >= 4 /\ data(rep, input).some)
             => last.res.kind \notin {"InvalidLength", "BadFormat"}

C5_Witness ==
    /\ last.op = "decode"
    /\ last.res = InvalidLength(3)
    /\ data(rep, input).some

\* C6: data(), checksum() and decode() return a value on every input (a frame
\* or None, a boolean, Ok(string) or a typed error); no input aborts.
C6_NoAbort ==
    /\ last.res.kind # "panic"
    /\ last.op = "decode" =>
         last.res.kind \in {"Ok", "InvalidLength", "BadFormat", "DecodeErr"}
    /\ last.op = "data" => last.frame = data(rep, input)
    /\ last.op = "checksum" => last.valid \in BOOLEAN

C6_Witness ==
    /\ last.op = "decode"
    /\ last.res.kind = "DecodeErr"
    /\ last.res.sym > 106

\* C7: in state B the symbol 101 moves the parser to state A and the symbol
\* 99 moves it to state C; both append nothing to the output.
C7_SwitchFromB ==
    [][(AtSymbol /\ state = "B" /\ Symbols[idx] \in {101, 99})
         => /\ state' = (IF Symbols[idx] = 101 THEN "A" ELSE "C")
            /\ decoded' = decoded]_vars

\* C8: a shift code (98) read in state A appends nothing and makes exactly the
\* next symbol, if below 98, decode under B, after which the parser is back in
\* A where symbols decode under A again; symmetrically for a shift read in B.
C8_Shift ==
    [][AtSymbol =>
         LET e == Symbols[idx]
         IN /\ (state = "A" /\ e = 98)
                 => (pc' = "parser" /\ state' = "ShiftB" /\ decoded' = decoded)
            /\ (state = "B" /\ e = 98)
                 => (pc' = "parser" /\ state' = "ShiftA" /\ decoded' = decoded)
            /\ (state = "ShiftB" /\ e < 98)
                 => (pc' = "parser" /\ state' = "A" /\ decoded' = decoded \o repr(e, "B"))
            /\ (state = "ShiftA" /\ e < 98)
                 => (pc' = "parser" /\ state' = "B" /\ decoded' = decoded \o repr(e, "A"))
            /\ (state \in {"A", "B"} /\ e < 98)
                 => (state' = state /\ decoded' = decoded \o repr(e, state))]_vars

\* start A, data: shift, 65 (decoded under B: 'a'), 65 (under A again: SOH)
C8_Witness ==
    /\ last.op = "decode"
    /\ Len(input) = 6
    /\ SubSeq(input, 1, 4) = <<103, 98, 65, 65>>
    /\ last.res = Ok(<<97, 1>>)

\* C9: whenever a consumed shift code is not immediately followed in the data
\* slice by a symbol below 98 (another symbol follows, or the shift is the
\* last data symbol), decode() returns DecodeErr.
C9_ShiftMisuse ==
    [][(pc = "parser" /\ state \in {"ShiftA", "ShiftB"}
          /\ (idx > Len(Symbols) \/ Symbols[idx] >= 98))
         => last'.res.kind = "DecodeErr"]_vars

\* C10: function codes are no-ops: 96, 97, 102 and the state's fnc4 code (101
\* in A, 100 in B) in states A and B, and 102 in state C, are consumed, append
\* nothing and leave the parser state unchanged.
C10_FncNoop ==
    [][(AtSymbol /\ \/ (state = "A" /\ Symbols[idx] \in {96, 97, 102, 101})
                    \/ (state = "B" /\ Symbols[idx] \in {96, 97, 102, 100})
                    \/ (state = "C" /\ Symbols[idx] = 102))
         => /\ pc' = "parser"
            /\ idx' = idx + 1
            /\ state' = state
            /\ decoded' = decoded]_vars

\* start B, data: 65 ('a'), fnc3, ... : after the function code the output
\* and the state are those before it
C10_Witness ==
    /\ pc = "parser"
    /\ data(rep, input).symbology = "B"
    /\ idx = 3
    /\ Symbols[1] = 65
    /\ Symbols[2] = 96
    /\ state = "B"
    /\ decoded = <<97>>

\* C11: when the stop value 106 is read from the data slice in state A, B or
\* C, decode() returns at once Ok of the string accumulated so far, whatever
\* symbols follow the stop in the data slice.
C11_StopEnds ==
    [][(AtSymbol /\ state \in {"A", "B", "C"} /\ AsU8(rep, Symbols[idx]) = 106)
         => /\ pc' = "idle"
            /\ last' = DecodeCall(Ok(decoded))]_vars

\* start C, data: 65 ("65"), stop, then a shift code that state C would
\* print as "98": the result is the output before the stop
C11_Witness ==
    /\ last.op = "decode"
    /\ Len(input) = 6
    /\ SubSeq(input, 1, 4) = <<105, 65, 106, 98>>
    /\ last.res = Ok(<<54, 53>>)

\* the datum with the element before its last element replaced by c
WithCheck(in, c) == [in EXCEPT ![Len(in) - 1] = c]

\* values tried as replacement check symbols
CheckSyms == RawSyms \cup DataSyms

\* C12: decode() does not depend on the check symbol: a sequence that differs
\* from the datum only in the element immediately before the final stop gives
\* the same result (same Ok string or same error), whether or not checksum()
\* holds for either.
C12_CheckIgnored ==
    (last.op = "decode" /\ Len(input) >= 2 /\ AsU8(rep, input[Len(input)]) = 106)
        => \A c \in CheckSyms :
             decode(rep, WithCheck(input, FromU8(rep, c))) = last.res

\* a datum decoded to a string although its checksum does not hold
C12_Witness ==
    /\ last.op = "decode"
    /\ last.res.kind = "Ok"
    /\ Len(last.res.str) >= 2
    /\ ~checksum(rep, input)
    /\ \E c \in CheckSyms : checksum(rep, WithCheck(input, FromU8(rep, c)))

C14_RoundTripIdentity ==
    (ret.fn = "as_u8" /\ arg.r = "Pattern") => ret.val = arg.u

\* the characters of a plain symbol value v under symbology s
PlainChars(s, v) ==
    IF s = "A" THEN (IF v <= 63 THEN <<v + 32>> ELSE <<v - 64>>)
    ELSE IF s = "B" THEN <<v + 32>>
    ELSE <<48 + (v \div 10), 48 + (v % 10)>>

\* the plain values of symbology s
Plain(s) == IF s = "C" THEN 0..99 ELSE 0..95

\* C15: a plain symbol appends exactly the character(s) of its symbology:
\* under A value+32 for 0..63 and value-64 for 64..95, under B value+32 for
\* 0..95, under C the two ASCII digits value/10 and value mod 10 for 0..99.
C15_PlainChars ==
    (ret.fn \in {"arm", "legacy"} /\ arg.u \in Plain(arg.s))
        => /\ ret.val.kind = "go"
           /\ ret.val.state = arg.s
           /\ ret.val.push = PlainChars(arg.s, arg.u)

C15_Witness ==
    /\ ret.fn = "legacy"
    /\ arg.s = "C"
    /\ arg.u = 42
    /\ ret.val.push = <<52, 50>>

\* the other representation, and the datum of the same values in it
Other(r) == IF r = "u8" THEN "Pattern" ELSE "u8"

Values(r, in) == [i \in 1..Len(in) |-> AsU8(r, in[i])]

OtherInput == Convert(Other(rep), Values(rep, input))

InRange == \A i \in 1..Len(input) : AsU8(rep, input[i]) <= 106

\* C16: for every sequence of values in 0..106, data(), checksum() and
\* decode() over raw integers give the same frame, the same boolean and the
\* same decode outcome as over the patterns of the same values.
C16_SameOutcome ==
    InRange =>
        /\ last.op = "data" => last.frame = data(Other(rep), OtherInput)
        /\ last.op = "checksum" => last.valid = checksum(Other(rep), OtherInput)
        /\ last.op = "decode" => last.res = decode(Other(rep), OtherInput)

\* C16 as amended: the same frame, the same boolean, and the same decode
\* outcome up to the rendering of the offending symbol in the message of a
\* DecodeErr (a decimal number for a raw integer, the name Cn for a pattern):
\* the same Ok string, or the same error with the same message text about
\* the same symbol value.
C16_SameUpToDebug ==
    InRange =>
        /\ last.op = "data" => last.frame = data(Other(rep), OtherInput)
        /\ last.op = "checksum" => last.valid = checksum(Other(rep), OtherInput)
        /\ last.op = "decode" =>
             LET o == decode(Other(rep), OtherInput)
             IN /\ last.res.kind = o.kind
                /\ last.res.str = o.str
                /\ last.res.len = o.len
                /\ last.res.sym = o.sym
                /\ last.res.msg.text = o.msg.text
                /\ last.res.msg.arg.digits = o.msg.arg.digits

\* a datum with a switch and a stop code in its data, decoded to a string
C16_Witness ==
    /\ last.op = "decode"
    /\ InRange
    /\ last.res.kind = "Ok"
    /\ Len(last.res.str) >= 2
    /\ Len(Symbols) >= 3
    /\ Symbols[3] = 106
    /\ last.res = decode(Other(rep), OtherInput)

\* C17: in both representations stop = 106, start(A/B/C) = 103/104/105,
\* switch(A/B/C) = 101/100/99, shift = 98, fnc1/fnc2/fnc3 = 102/97/96, and the
\* start code of a symbology is the value of that symbology added in the
\* checksum.
C17_StructuralSymbols ==
    ret.fn = "contract" =>
        /\ ret.val.stop = 106
        /\ ret.val.start = (CASE arg.s = "A" -> 103 [] arg.s = "B" -> 104 [] arg.s = "C" -> 105)
        /\ ret.val.switch = (CASE arg.s = "A" -> 101 [] arg.s = "B" -> 100 [] arg.s = "C" -> 99)
        /\ ret.val.shift = 98
        /\ ret.val.fnc1 = 102
        /\ ret.val.fnc2 = 97
        /\ ret.val.fnc3 = 96
        /\ ret.val.start = ret.val.symbology

C17_Witness ==
    /\ ret.fn = "contract"
    /\ arg.r = "Pattern"
    /\ arg.s = "B"
    /\ ret.val.start = 104
    /\ ret.val.switch = 100

\* C18: fnc4 returns a value only for A and B, 101 for A and 100 for B, each
\* the switch code of that same symbology; for C it returns None.
C18_Fnc4 ==
    ret.fn = "fnc4" =>
        /\ arg.s = "A" => ret.val = Some(101)
        /\ arg.s = "B" => ret.val = Some(100)
        /\ arg.s \in {"A", "B"} => ret.val.value = switch(arg.s)
        /\ arg.s = "C" => ~ret.val.some

C18_Witness ==
    /\ ret.fn = "fnc4"
    /\ arg.s = "B"
    /\ ret.val = Some(100)

\* C19: data(), checksum() and decode() leave the symbol sequence unchanged,
\* and every call of one of them, in any order and any number of times,
\* returns what the first call of that operation returned.
C19_Repeatable ==
    [][/\ input' = input
       /\ rep' = rep
       /\ last'.op # "-" => last' = firstCall'[last'.op]]_vars

\* all three operations have returned and decode() runs once more: its first
\* result was a string, and it is past its second symbol
C19_Witness ==
    /\ firstCall.data # NoCall
    /\ firstCall.checksum # NoCall
    /\ firstCall.decode.res.kind = "Ok"
    /\ Len(firstCall.decode.res.str) >= 1
    /\ pc = "parser"
    /\ idx >= 3

\* what the call of thread t returns when no other thread runs
Alone(t) ==
    IF th[t].res.op = "decode" THEN DecodeCall(decode(rep, Slice(t)))
    ELSE ChecksumCall(checksum(rep, Slice(t)))

\* a step taken by thread t
StepOf(t) == th'[t] # th[t] \/ frame'[Own(t)] # frame[Own(t)]

\* C20: when decodes and checksums run at the same time on one shared
\* sequence or on different sequences, then under every interleaving of
\* their steps each call returns what it returns when run alone, the
\* sequences stay as they are, and a step of one thread changes neither the
\* call nor the parser state and output of another.
C20_Isolated ==
    /\ [](\A t \in Threads : th[t].pc = "done" => th[t].res = Alone(t))
    /\ [][/\ slices' = slices
          /\ \A t \in Threads : StepOf(t) =>
               \A u \in Threads \ {t} :
                   th'[u] = th[u] /\ frame'[Own(u)] = frame[Own(u)]]_vars

\* both threads have decoded different data to different strings, and each
\* took a loop iteration while the other was inside its own loop
C20_Witness ==
    /\ \A t \in Threads :
         /\ th[t].pc = "done"
         /\ th[t].mixed
         /\ th[t].res.op = "decode"
         /\ th[t].res.res.kind = "Ok"
         /\ Len(th[t].res.res.str) >= 1
    /\ th[1].ref # th[2].ref
    /\ th[1].res.res.str # th[2].res.res.str

\* C21: in state A a symbol below 98 appends its repr under A and stays in A;
\* 100 moves to B, 99 to C and 98 to ShiftB, and these three append nothing.
C21_StateA ==
    (ret.fn = "arm" /\ arg.s = "A") =>
        LET e == FromU8(arg.r, arg.u)
            v == AsU8(arg.r, e)
            a == ret.val
        IN /\ v < 98 => (a.kind = "go" /\ a.state = "A" /\ a.push = repr(e, "A"))
           /\ v = 100 => (a.kind = "go" /\ a.state = "B" /\ a.push = <<>>)
           /\ v = 99 => (a.kind = "go" /\ a.state = "C" /\ a.push = <<>>)
           /\ v = 98 => (a.kind = "go" /\ a.state = "ShiftB" /\ a.push = <<>>)

C21_Witness ==
    /\ ret.fn = "arm"
    /\ arg.s = "A"
    /\ arg.u = 99
    /\ ret.val.kind = "go"
    /\ ret.val.state = "C"

\* C22: in state C a symbol below 100 (96, 97, 98 and 99 included) appends
\* its two decimal digits and stays in C; 100 moves to B, 101 to A, 102 does
\* nothing; no symbol leads from C to a shift state.
C22_StateC ==
    (ret.fn = "arm" /\ arg.s = "C") =>
        LET v == AsU8(arg.r, FromU8(arg.r, arg.u))
            a == ret.val
        IN /\ v < 100 => /\ a.kind = "go"
                         /\ a.state = "C"
                         /\ a.push = <<48 + (v \div 10), 48 + (v % 10)>>
           /\ v = 100 => (a.kind = "go" /\ a.state = "B" /\ a.push = <<>>)
           /\ v = 101 => (a.kind = "go" /\ a.state = "A" /\ a.push = <<>>)
           /\ v = 102 => (a.kind = "go" /\ a.state = "C" /\ a.push = <<>>)
           /\ a.kind = "go" => a.state \in {"A", "B", "C"}

\* the shift code read in state C is printed as "98"
C22_Witness ==
    /\ ret.fn = "arm"
    /\ arg.s = "C"
    /\ arg.u = 98
    /\ ret.val.state = "C"
    /\ ret.val.push = <<57, 56>>

\* a value no arm of states A, B and C names: a start code or above the stop
Unenumerated(v) == v \in 103..105 \/ v > 106

\* C23: when the symbol read in state A, B or C is a start code (103, 104,
\* 105) or has a value above 106, decode() returns at that symbol DecodeErr
\* for it and no string; in state C no other symbol gives DecodeErr.
C23_DecodeErr ==
    [][(AtSymbol /\ state \in {"A", "B", "C"}) =>
         LET v == AsU8(rep, Symbols[idx])
         IN /\ Unenumerated(v) =>
                 /\ pc' = "idle"
                 /\ last'.op = "decode"
                 /\ last'.res.kind = "DecodeErr"
                 /\ last'.res.sym = v
                 /\ last'.res.str = <<>>
            /\ (state = "C" /\ last'.res.kind = "DecodeErr") => Unenumerated(v)]_vars

\* start C, data: 99 ("99"), then 200: the error names 200 and the output
\* built before it is not returned
C23_Witness ==
    /\ last.op = "decode"
    /\ Len(input) >= 5
    /\ SubSeq(input, 1, 3) = <<105, 99, 200>>
    /\ last.res.kind = "DecodeErr"
    /\ last.res.sym = 200
    /\ last.res.msg.text = "unexpected encoding"

\* C24: decode() terminates: inside the loop it reads the data symbols in
\* order, one more at each iteration and none twice, never beyond the end
\* of the data slice, and each iteration either goes on to the next symbol
\* or returns Ok or DecodeErr; every call that entered the loop returns.
C24_Terminates ==
    /\ [](pc = "parser" => idx \in 1..(Len(Symbols) + 1))
    /\ [][pc = "parser" =>
            \/ /\ idx <= Len(Symbols)
               /\ pc' = "parser"
               /\ idx' = idx + 1
            \/ /\ pc' = "idle"
               /\ last'.op = "decode"
               /\ last'.res.kind \in {"Ok", "DecodeErr"}]_vars
    /\ (pc = "parser" ~> pc = "idle")

\* a data slice of three plain symbols read to its end, and one left at its
\* second symbol by a stop code
C24_Witness ==
    /\ last.op = "decode"
    /\ last.res.kind = "Ok"
    /\ Len(Symbols) = 3
    /\ \/ Len(last.res.str) = 3
       \/ Symbols[2] = 106 /\ Len(last.res.str) = 1

\* the data symbols all have a value in [0,102]
PlainData == \A i \in 1..Len(Symbols) : AsU8(rep, Symbols[i]) \in 0..102

\* the datum with its i-th data symbol replaced by the symbol of value v
WithSymbol(i, v) == [input EXCEPT ![i + 1] = FromU8(rep, v)]

\* the datum with its i-th and (i+1)-th data symbols exchanged
Swapped(i) == [input EXCEPT ![i + 1] = input[i + 2], ![i + 2] = input[i + 1]]

\* C25: for a datum with a valid checksum, at most 102 data symbols and data
\* values in [0,102], the datum with any one data symbol replaced by a
\* different value in [0,102] has a false checksum.
C25_SingleEdit ==
    (last.op = "checksum" /\ last.valid /\ Len(Symbols) <= 102 /\ PlainData) =>
        \A i \in 1..Len(Symbols) : \A v \in 0..102 :
            v # AsU8(rep, Symbols[i]) => ~checksum(rep, WithSymbol(i, v))

C25_Witness ==
    /\ last.op = "checksum"
    /\ last.valid
    /\ PlainData
    /\ Len(Symbols) = 3
    /\ ~checksum(rep, WithSymbol(3, 0))

\* C26: for a datum with a valid checksum and data values in [0,102], the
\* datum with two adjacent data symbols of different value exchanged has a
\* false checksum.
C26_AdjacentSwap ==
    (last.op = "checksum" /\ last.valid /\ PlainData) =>
        \A i \in 1..(Len(Symbols) - 1) :
            Symbols[i] # Symbols[i + 1] => ~checksum(rep, Swapped(i))

C26_Witness ==
    /\ last.op = "checksum"
    /\ last.valid
    /\ PlainData
    /\ Len(Symbols) = 3
    /\ Symbols[2] # Symbols[3]
    /\ ~checksum(rep, Swapped(2))

\* C27: checksum() is true only for a check symbol with a value in [0,102]:
\* a datum whose check symbol is a start code, the stop code or a larger
\* value is never valid.
C27_CheckBelow103 ==
    last.op = "checksum" =>
        /\ last.valid => AsU8(rep, data(rep, input).check) \in 0..102
        /\ (data(rep, input).some /\ AsU8(rep, data(rep, input).check) >= 103)
             => ~last.valid

\* start A, one data symbol 0, check symbol 103: the sum is 103, its
\* remainder 0, and the datum is not valid
C27_Witness ==
    /\ last.op = "checksum"
    /\ input = <<103, 0, 103, 106>>
    /\ ~last.valid

\* C28: while decode() stays in its loop the output only grows at its end:
\* the output before a consumed symbol is a prefix of the output after it,
\* longer by 2 characters for a symbol below 100 in state C, by 1 character
\* for a plain symbol (below 96) in state A, B, ShiftA or ShiftB, and by
\* none for any other symbol; a shift state is left at the next symbol,
\* ShiftA is entered only from B and ShiftB only from A.
C28_AppendOnly ==
    [][(AtSymbol /\ pc' = "parser") =>
         LET v == AsU8(rep, Symbols[idx])
         IN /\ Len(decoded') >= Len(decoded)
            /\ SubSeq(decoded', 1, Len(decoded)) = decoded
            /\ Len(decoded') - Len(decoded) =
                 (IF state = "C" /\ v < 100 THEN 2
                  ELSE IF state # "C" /\ v < 96 THEN 1
                  ELSE 0)
            /\ state \in {"ShiftA", "ShiftB"} => state' \notin {"ShiftA", "ShiftB"}
            /\ state' = "ShiftA" => state = "B"
            /\ state' = "ShiftB" => state = "A"]_vars

\* start A, data: 65 (SOH), shift, 65 (under B: 'a'): the output has grown by
\* one, none and one character, and the parser is back in A
C28_Witness ==
    /\ pc = "parser"
    /\ Len(input) = 6
    /\ SubSeq(input, 1, 4) = <<103, 65, 98, 65>>
    /\ idx = 4
    /\ state = "A"
    /\ decoded = <<1, 97>>

====
